---- MODULE Spec2Model ----
(***************************************************************************)
(* Model of the Hamming(7,4) block code engine (src/js/hamming.js) and of  *)
(* the fixed-point consistency solver (RetrocausalFixedPointSolver, whose  *)
(* source is the listing in src/theory_guide.md), and of the simulation    *)
(* control of the application (runCompleteSimulation, resetSimulation and  *)
(* the animation timers of src/js/main.js).                                *)
(*                                                                         *)
(* Conventions.  A JavaScript array is a TLA+ sequence, so the JavaScript  *)
(* index i is the TLA+ index i + 1; values that the code computes as       *)
(* indices (errorPosition, iteration) keep the code's 0-based values.      *)
(* A JavaScript number that is not an integer is a pair <<num, den>> with  *)
(* den > 0; Infinity is <<1, 0>>.  statistics.averageIterations, which     *)
(* gains a decimal place with every run, is a decimal [whole, fraction]    *)
(* with fraction the digits after the point.  A call's outcome is a record *)
(* [threw, value].  An empty slot of a sparse array (new Array(4),         *)
(* [1, , 0, 1]) is the element Hole, and the value undefined is Undefined. *)
(* Math.random() is a nondeterministic choice in RandVals.                 *)
(* Wall-clock values (startTime, computationTime) are not modelled.        *)
(* The array this.convergenceHistory and the copies handed to callers are  *)
(* objects with an identity (historyRef, held[k].historyRef): a write to   *)
(* an array shows in every result that holds that very array.              *)
(*                                                                         *)
(* HammingSpec is a caller of HammingCode, Spec one solveFixedPoint call   *)
(* on a new solver, SessionSpec a sequence of solveFixedPoint and          *)
(* runStatisticalAnalysis calls on one solver, AppSpec the event loop of   *)
(* the application: simulate requests, resets and timer wake-ups, each     *)
(* event handler running to its next await before another event is taken.  *)
(***************************************************************************)
EXTENDS Integers, Sequences, FiniteSets, TLC

VARIABLES
    \* ---- a caller exercising HammingCode directly (HammingSpec) ----
    hOp,        \* the last HammingCode method called
    hArg,       \* its array argument
    hRate,      \* its errorRate argument (injectErrors only)
    hRet,       \* its outcome [threw, value]
    hData,      \* the DataWord last passed to encode
    hSent,      \* the codeword encode returned for hData
    hWord,      \* the 7-bit word in transit (hSent, then corrupted)
    \* ---- one RetrocausalFixedPointSolver object and a solveFixedPoint call ----
    pc,                 \* "idle", "loop", "exit", "returned", "threw"
    initialData,        \* the caller's array
    config,             \* merged configuration
    currentData,
    previousData,
    convergenceHistory,
    currentIteration,
    isConverged,
    convergenceError,
    statistics,
    result,             \* the SolveResult returned
    \* ---- the caller of the solver and the array objects it shares with it ----
    calls,              \* solveFixedPoint calls made on this solver
    statusBefore,       \* getStatus() as observed before the current call
    held,               \* the SolveResults returned so far, as the caller sees them
    historyRef,         \* identity of the array this.convergenceHistory
    allocated,          \* array objects allocated for histories so far
    batch,              \* the frame of a runStatisticalAnalysis call, or Null
    analysis,           \* the last runStatisticalAnalysis call that returned:
                        \* its arguments and the value it returned
    \* ---- the application (RetrocausalSimulatorApp, AppSpec) ----
    inputBits,          \* currentState.inputBits
    parameters,         \* currentState.parameters
    simulation,         \* currentState.simulation
    simulationsRun,     \* analytics.simulationsRun
    requests,           \* runCompleteSimulation calls made so far
    edits,              \* input events (checkboxes, parameter controls) so far
    benchmarks,         \* runBenchmarkAnalysis calls made so far
    task,               \* task[r]: where the r-th runCompleteSimulation call is
    timers              \* pending sleep(150) timers, oldest first: the calls
                        \* they resume

hvars == <<hOp, hArg, hRate, hRet, hData, hSent, hWord>>
svars == <<pc, initialData, config, currentData, previousData, convergenceHistory,
           currentIteration, isConverged, convergenceError, statistics, result,
           calls, statusBefore, held, historyRef, allocated, batch, analysis>>
avars == <<inputBits, parameters, simulation, simulationsRun, requests, edits,
           benchmarks, task, timers>>
vars == <<hvars, svars, avars>>

(***************************************************************************)
(* Numbers                                                                 *)
(***************************************************************************)
Rat(n, d) == <<n, d>>
Infinity == <<1, 0>>
\* a < b and a <= b on pairs with non-negative denominators
\* 0 / 0; a numeric field that holds undefined is kept as NaN, which is what
\* every comparison and sum converts it to
NaN == <<0, 0>>
IsNaN(a) == a[1] = 0 /\ a[2] = 0
Less(a, b) == a[1] * b[2] < b[1] * a[2]
LessEq(a, b) == ~IsNaN(a) /\ ~IsNaN(b) /\ a[1] * b[2] <= b[1] * a[2]
RatEq(a, b) == a[1] * b[2] = b[1] * a[2] /\ (a[2] = 0) = (b[2] = 0)

\* The values Math.random() may return: the least value of [0, 1), and 0.9,
\* which lies above every probability below 1 that the code compares a draw
\* with (0.3, 0.5, the jittered rates) and keeps the products of the
\* comparisons within 32 bits.
RandVals == { Rat(0, 1), Rat(9, 10) }

\* An empty slot of a sparse array, and the value undefined (read from an
\* empty slot, or copied out of one by the spread [...array])
Hole == -1
Undefined == -2

\* Bitwise XOR on bits
Xor(a, b) == (a + b) % 2

\* x ^ 1: undefined converts to 0
XorOne(x) == IF x \in {Hole, Undefined} THEN 1 ELSE Xor(x, 1)

\* [...array]: empty slots are copied as undefined
Spread(array) ==
    [i \in 1..Len(array) |-> IF array[i] = Hole THEN Undefined ELSE array[i]]

\* Outcome of a call
Returned(v) == [threw |-> FALSE, value |-> v]
Thrown == [threw |-> TRUE, value |-> << >>]

(***************************************************************************)
(* HammingCode                                                             *)
(***************************************************************************)
\* Mutant: the parity bits first, [p1, p2, p3, d1, d2, d3, d4]
generatorMatrixParityFirst ==
    << <<1, 1, 0, 1>>,
       <<1, 0, 1, 1>>,
       <<0, 1, 1, 1>>,
       <<1, 0, 0, 0>>,
       <<0, 1, 0, 0>>,
       <<0, 0, 1, 0>>,
       <<0, 0, 0, 1>> >>

generatorMatrix ==
    << <<1, 1, 0, 1>>,
       <<1, 0, 1, 1>>,
       <<1, 0, 0, 0>>,
       <<0, 1, 1, 1>>,
       <<0, 1, 0, 0>>,
       <<0, 0, 1, 0>>,
       <<0, 0, 0, 1>> >>

\* Mutant: the rows of s1 and s2 exchanged
parityCheckMatrixSwapped ==
    << <<0, 1, 1, 0, 0, 1, 1>>,
       <<1, 0, 1, 0, 1, 0, 1>>,
       <<0, 0, 0, 1, 1, 1, 1>> >>

parityCheckMatrix ==
    << <<1, 0, 1, 0, 1, 0, 1>>,
       <<0, 1, 1, 0, 0, 1, 1>>,
       <<0, 0, 0, 1, 1, 1, 1>> >>

\* Mutant: positions counted from the last bit
syndromeToErrorPositionReversed ==
    [v \in 0..7 |-> IF v = 0 THEN -1 ELSE 7 - v]

syndromeToErrorPosition ==
    [v \in 0..7 |-> CASE v = 0 -> -1
                      [] v = 1 -> 0
                      [] v = 2 -> 1
                      [] v = 3 -> 2
                      [] v = 4 -> 3
                      [] v = 5 -> 4
                      [] v = 6 -> 5
                      [] v = 7 -> 6]

\* Array.prototype.every does not call its predicate on empty slots
validateDataBits(dataBits) ==
    /\ Len(dataBits) = 4
    /\ \A i \in 1..Len(dataBits) : dataBits[i] # Hole => dataBits[i] \in {0, 1}

validateCodeword(codeword) ==
    /\ Len(codeword) = 7
    /\ \A i \in 1..Len(codeword) : codeword[i] # Hole => codeword[i] \in {0, 1}

\* row[j] * word[j] as an operand of ^: the product with undefined is NaN,
\* which ^ converts to 0
Product(a, b) == IF b \in {Hole, Undefined} THEN 0 ELSE a * b

\* Mutant: bit |= row[j] * word[j]
RECURSIVE XorDotOr(_, _, _, _)
XorDotOr(row, word, n, bit) ==
    IF n = 0 THEN bit
    ELSE IF XorDotOr(row, word, n - 1, bit) + Product(row[n], word[n]) > 0
         THEN 1 ELSE 0

\* bit ^= row[j] * word[j] for j = 1..n, starting from bit
RECURSIVE XorDot(_, _, _, _)
XorDot(row, word, n, bit) ==
    IF n = 0 THEN bit
    ELSE Xor(XorDot(row, word, n - 1, bit), Product(row[n], word[n]))

\* Mutant: the systematic layout [d1, d2, d3, d4, p1, p2, p3]
encodeBitsDataFirst(dataBits) ==
    [i \in 1..7 |->
        IF i <= 4 THEN dataBits[i]
        ELSE XorDot(generatorMatrix[CASE i = 5 -> 1 [] i = 6 -> 2 [] i = 7 -> 4],
                    dataBits, 4, 0)]

encodeBits(dataBits) ==
    [i \in 1..7 |-> XorDot(generatorMatrix[i], dataBits, 4, 0)]

encode(dataBits) ==
    IF ~validateDataBits(dataBits) THEN Thrown
    ELSE Returned(encodeBits(dataBits))

calculateSyndrome(codeword) ==
    [i \in 1..3 |-> XorDot(parityCheckMatrix[i], codeword, 7, 0)]

\* Mutant: the syndrome read most significant bit first
syndromeToIntegerMsbFirst(syndrome) ==
    syndrome[1] * 4 + syndrome[2] * 2 + syndrome[3] * 1

syndromeToInteger(syndrome) ==
    syndrome[1] * 1 + syndrome[2] * 2 + syndrome[3] * 4

\* Mutant: the error is reported and not corrected
decodeBitsUncorrected(codeword) ==
    LET syndrome == calculateSyndrome(codeword)
        syndromeValue == syndromeToInteger(syndrome)
        errorPosition == syndromeToErrorPosition[syndromeValue]
        errorDetected == errorPosition # -1
        correctedCodeword == Spread(codeword)
    IN  [dataBits |-> << correctedCodeword[3], correctedCodeword[5],
                         correctedCodeword[6], correctedCodeword[7] >>,
         correctedCodeword |-> correctedCodeword,
         errorDetected |-> errorDetected,
         errorPosition |-> errorPosition,
         syndrome |-> syndrome,
         syndromeValue |-> syndromeValue]

decodeBits(codeword) ==
    LET syndrome == calculateSyndrome(codeword)
        syndromeValue == syndromeToInteger(syndrome)
        errorPosition == syndromeToErrorPosition[syndromeValue]
        errorDetected == errorPosition # -1
        copy == Spread(codeword)
        correctedCodeword ==
            [i \in 1..7 |-> IF errorDetected /\ i = errorPosition + 1
                            THEN XorOne(copy[i]) ELSE copy[i]]
    IN  [dataBits |-> << correctedCodeword[3], correctedCodeword[5],
                         correctedCodeword[6], correctedCodeword[7] >>,
         correctedCodeword |-> correctedCodeword,
         errorDetected |-> errorDetected,
         errorPosition |-> errorPosition,
         syndrome |-> syndrome,
         syndromeValue |-> syndromeValue]

decode(codeword) ==
    IF ~validateCodeword(codeword) THEN Thrown
    ELSE Returned(decodeBits(codeword))

\* Mutant: Math.random() <= errorRate
injectErrorsInclusive(codeword, errorRate, draws) ==
    [i \in 1..Len(codeword) |->
        IF LessEq(draws[i], errorRate) THEN XorOne(codeword[i])
        ELSE Spread(codeword)[i]]

\* draws[i] is the value Math.random() returns in loop round i
injectErrors(codeword, errorRate, draws) ==
    [i \in 1..Len(codeword) |->
        IF Less(draws[i], errorRate) THEN XorOne(codeword[i])
        ELSE Spread(codeword)[i]]

hammingDistance(word1, word2) ==
    Cardinality({i \in 1..Len(word1) : word1[i] # word2[i]})

\* the bits [(i >> 3) & 1, (i >> 2) & 1, (i >> 1) & 1, i & 1]
BitsOf(i) == << (i \div 8) % 2, (i \div 4) % 2, (i \div 2) % 2, i % 2 >>

generateCodebook ==
    [k \in 1..16 |-> [input |-> BitsOf(k - 1),
                      codeword |-> encode(BitsOf(k - 1)).value]]

\* Math.min over a non-empty set of integers, starting from Infinity
MinOf(S) == CHOOSE m \in S : \A n \in S : m <= n

\* Mutant: the inner loop starts at j = i
calculateMinimumDistanceFromSelf ==
    LET codebook == generateCodebook
    IN  MinOf({ hammingDistance(codebook[i].codeword, codebook[j].codeword) :
                  <<i, j>> \in {p \in (1..16) \X (1..16) : p[1] <= p[2]} })

calculateMinimumDistance ==
    LET codebook == generateCodebook
    IN  MinOf({ hammingDistance(codebook[i].codeword, codebook[j].codeword) :
                  <<i, j>> \in {p \in (1..16) \X (1..16) : p[1] < p[2]} })

(***************************************************************************)
(* RetrocausalFixedPointSolver                                             *)
(***************************************************************************)
DefaultMaxIterations == 100

defaultParams ==
    [maxIterations |-> DefaultMaxIterations,
     convergenceTolerance |-> Rat(1, 1000000),
     errorRate |-> Rat(5, 100),
     dampingFactor |-> Rat(1, 2),
     enableAdaptiveStep |-> TRUE]

\* { ...defaults, ...params }
MergeParams(defaults, params) ==
    [k \in DOMAIN defaults \cup DOMAIN params |->
        IF k \in DOMAIN params THEN params[k] ELSE defaults[k]]

\* let previousData = null
Null == << >>

\* Mutant: a bit is flipped when Math.random() <= errorRate
simulateTemporalTransmissionInclusive(state, errorRate, draws) ==
    injectErrorsInclusive(state, errorRate, draws)

simulateTemporalTransmission(state, errorRate, draws) ==
    injectErrors(state, errorRate, draws)

\* Mutant: the data bits are read from the received word, uncorrected
applySingleEvolutionCycleUncorrected(inputData, cfg, draws) ==
    LET encoded == encode(inputData)
    IN  IF encoded.threw THEN Thrown
        ELSE
        LET encodedState == encoded.value
            transmittedState ==
                simulateTemporalTransmission(encodedState, cfg.errorRate, draws)
            decodingResult == decode(transmittedState)
        IN  IF decodingResult.threw THEN Thrown
            ELSE Returned(
                [inputData |-> inputData,
                 encodedState |-> encodedState,
                 transmittedState |-> transmittedState,
                 decodingResult |-> decodingResult.value,
                 finalData |-> << transmittedState[3], transmittedState[5],
                                  transmittedState[6], transmittedState[7] >>,
                 errorsCorrected |-> decodingResult.value.errorDetected,
                 errorPosition |-> decodingResult.value.errorPosition])

applySingleEvolutionCycle(inputData, cfg, draws) ==
    LET encoded == encode(inputData)
    IN  IF encoded.threw THEN Thrown
        ELSE
        LET encodedState == encoded.value
            transmittedState ==
                simulateTemporalTransmission(encodedState, cfg.errorRate, draws)
            decodingResult == decode(transmittedState)
        IN  IF decodingResult.threw THEN Thrown
            ELSE Returned(
                [inputData |-> inputData,
                 encodedState |-> encodedState,
                 transmittedState |-> transmittedState,
                 decodingResult |-> decodingResult.value,
                 finalData |-> decodingResult.value.dataBits,
                 errorsCorrected |-> decodingResult.value.errorDetected,
                 errorPosition |-> decodingResult.value.errorPosition])

\* Mutant: counts the positions that agree
calculateConvergenceErrorAgreeing(currentState, previousState) ==
    IF previousState = Null THEN Infinity
    ELSE LET differences ==
                Cardinality({i \in 1..Len(currentState) :
                                currentState[i] = previousState[i]})
         IN  Rat(differences, Len(currentState))

\* Mutant: normalized by the length of a codeword
calculateConvergenceErrorOverCodeword(currentState, previousState) ==
    IF previousState = Null THEN Infinity
    ELSE LET differences ==
                Cardinality({i \in 1..Len(currentState) :
                                currentState[i] # previousState[i]})
         IN  Rat(differences, 7)

calculateConvergenceError(currentState, previousState) ==
    IF previousState = Null THEN Infinity
    ELSE LET differences ==
                Cardinality({i \in 1..Len(currentState) :
                                currentState[i] # previousState[i]})
         IN  Rat(differences, Len(currentState))

\* 1 - dampingFactor
OneMinus(x) == Rat(x[2] - x[1], x[2])

\* Mutant: the new value is kept with probability dampingFactor
applyAdaptiveStepReversed(currentState, previousState, cfg, draws) ==
    LET dampingFactor == cfg.dampingFactor
        call(i) == Cardinality({j \in 1..i : currentState[j] # previousState[j]})
    IN  [i \in 1..Len(currentState) |->
            IF currentState[i] # previousState[i]
            THEN IF Less(draws[call(i)], dampingFactor)
                 THEN currentState[i] ELSE previousState[i]
            ELSE currentState[i]]

\* draws[k] is the value of the k-th Math.random() call; one call is made
\* for each position where the two states differ, in index order.
applyAdaptiveStep(currentState, previousState, cfg, draws) ==
    LET dampingFactor == cfg.dampingFactor
        call(i) == Cardinality({j \in 1..i : currentState[j] # previousState[j]})
    IN  [i \in 1..Len(currentState) |->
            IF currentState[i] # previousState[i]
            THEN IF Less(draws[call(i)], OneMinus(dampingFactor))
                 THEN currentState[i] ELSE previousState[i]
            ELSE currentState[i]]

\* the record recordIterationStep pushes
IterationRecord(iteration, currentState, error, evolutionResult) ==
    [iteration |-> iteration,
     state |-> currentState,
     convergenceError |-> error,
     errorsCorrected |-> evolutionResult.errorsCorrected,
     errorPosition |-> evolutionResult.errorPosition,
     encodedState |-> evolutionResult.encodedState,
     transmittedState |-> evolutionResult.transmittedState]

\* Math.log(e_curr / e_prev) is finite and negative exactly when
\* 0 < e_curr < e_prev < Infinity.  The rate is the mean of |log r| over the
\* qualifying ratios r; it is kept as the sequence of those ratios (the
\* empty sequence is the rate 0).
RECURSIVE QualifyingRatios(_, _)
QualifyingRatios(history, n) ==
    IF n < 3 THEN << >>
    ELSE LET e_prev == history[n - 1].convergenceError
             e_curr == history[n].convergenceError
             rest == QualifyingRatios(history, n - 1)
         IN  IF /\ Less(Rat(0, 1), e_prev) /\ Less(Rat(0, 1), e_curr)
                /\ e_prev[2] # 0 /\ e_curr[2] # 0
                /\ Less(e_curr, e_prev)
             THEN Append(rest, Rat(e_curr[1] * e_prev[2], e_curr[2] * e_prev[1]))
             ELSE rest

calculateConvergenceRate(history) ==
    IF Len(history) < 3 THEN << >>
    ELSE QualifyingRatios(history, Len(history))

\* Mutant: every iteration is counted as a detected error
analyzeErrorCorrectionAllSteps(history) ==
    LET totalErrors == Len(history)
        correctedErrors == totalErrors
    IN  [totalErrorsDetected |-> totalErrors,
         errorsCorrected |-> correctedErrors,
         correctionEfficiency |->
            IF totalErrors > 0 THEN Rat(correctedErrors, totalErrors) ELSE Rat(1, 1),
         averageErrorsPerIteration |-> Rat(totalErrors, Len(history))]

analyzeErrorCorrection(history) ==
    LET totalErrors == Cardinality({i \in 1..Len(history) : history[i].errorsCorrected})
        correctedErrors == totalErrors
    IN  [totalErrorsDetected |-> totalErrors,
         errorsCorrected |-> correctedErrors,
         correctionEfficiency |->
            IF totalErrors > 0 THEN Rat(correctedErrors, totalErrors) ELSE Rat(1, 1),
         averageErrorsPerIteration |-> Rat(totalErrors, Len(history))]

BytesPerEntry == 100

estimateMemoryUsage(history) == Len(history) * BytesPerEntry

\* Mutant: converged reported only for a convergence error of exactly 0
createSolutionReportZeroError(finalData, cfg) ==
    [finalState |-> finalData,
     converged |-> convergenceError[1] = 0,
     iterations |-> currentIteration + 1,
     finalError |-> convergenceError,
     parameters |-> cfg,
     convergenceHistory |-> convergenceHistory,
     convergenceRate |-> calculateConvergenceRate(convergenceHistory),
     errorCorrectionStats |-> analyzeErrorCorrection(convergenceHistory),
     memoryUsage |-> estimateMemoryUsage(convergenceHistory)]

\* Mutant: the loop index is reported as the iteration count
createSolutionReportZeroBased(finalData, cfg) ==
    [finalState |-> finalData,
     converged |-> isConverged,
     iterations |-> currentIteration,
     finalError |-> convergenceError,
     parameters |-> cfg,
     convergenceHistory |-> convergenceHistory,
     convergenceRate |-> calculateConvergenceRate(convergenceHistory),
     errorCorrectionStats |-> analyzeErrorCorrection(convergenceHistory),
     memoryUsage |-> estimateMemoryUsage(convergenceHistory)]

createSolutionReport(finalData, cfg) ==
    [finalState |-> finalData,
     converged |-> isConverged,
     iterations |-> currentIteration + 1,
     finalError |-> convergenceError,
     parameters |-> cfg,
     convergenceHistory |-> convergenceHistory,
     convergenceRate |-> calculateConvergenceRate(convergenceHistory),
     errorCorrectionStats |-> analyzeErrorCorrection(convergenceHistory),
     memoryUsage |-> estimateMemoryUsage(convergenceHistory)]

\* 9 * 0.f1 f2 ... fk + carry * 10^-k for the decimal digits fraction =
\* <<f1, ..., fk>>: the integer part (carry) and the k digits after the
\* point.  The digits are multiplied in two halves; the right half is
\* multiplied first and its carry enters the left half.
RECURSIVE NineTimes(_, _)
NineTimes(fraction, carry) ==
    IF fraction = << >> THEN [carry |-> carry, digits |-> << >>]
    ELSE IF Len(fraction) = 1
    THEN [carry |-> (9 * fraction[1] + carry) \div 10,
          digits |-> <<(9 * fraction[1] + carry) % 10>>]
    ELSE LET half == Len(fraction) \div 2
             halves ==
                 CHOOSE h \in
                     { <<NineTimes(SubSeq(fraction, 1, half), right.carry), right>> :
                         right \in {NineTimes(SubSeq(fraction, half + 1,
                                                     Len(fraction)), carry)} } :
                     TRUE
         IN  [carry |-> halves[1].carry,
              digits |-> halves[1].digits \o halves[2].digits]

\* alpha * sample + (1 - alpha) * average with alpha = 0.1, on decimals
\* [whole, fraction]: (sample + 9 * average) / 10
ExponentialAverage(sample, average) ==
    LET scaled == NineTimes(average.fraction, 0)
        m == sample + 9 * average.whole + scaled.carry
    IN  [whole |-> m \div 10, fraction |-> <<m % 10>> \o scaled.digits]

\* Mutant: a run is counted only when it converged
updatedStatisticsConvergedOnly ==
    [statistics EXCEPT
        !.totalRuns = IF isConverged THEN @ + 1 ELSE @,
        !.successfulConvergences = IF isConverged THEN @ + 1 ELSE @,
        !.averageIterations = ExponentialAverage(currentIteration + 1, @)]

\* alpha = 0.1: averageIterations = alpha * (currentIteration + 1)
\*                                  + (1 - alpha) * averageIterations
updatedStatistics ==
    [statistics EXCEPT
        !.totalRuns = @ + 1,
        !.successfulConvergences = IF isConverged THEN @ + 1 ELSE @,
        !.averageIterations = ExponentialAverage(currentIteration + 1, @)]

(***************************************************************************)
(* A caller of HammingCode: encode a DataWord, corrupt the codeword (one   *)
(* flipped bit as in the tests, or injectErrors), decode the received word.*)
(***************************************************************************)
DataWords == { BitsOf(i) : i \in 0..15 }

\* Arrays a caller may pass as data: the 16 DataWords and malformed ones:
\* wrong length, a value that is not a bit (the number 2, undefined), and
\* the sparse arrays new Array(4) and [1, , 0, 1].
BadData == { <<1, 0>>, <<1, 0, 2>>, <<1, 0, 2, 1>>, <<1, 0, 1, 0, 1>>,
             <<1, Undefined, 0, 1>> }
SparseData == { <<Hole, Hole, Hole, Hole>>, <<1, Hole, 0, 1>> }
DataInputs == DataWords \cup BadData \cup SparseData

\* Malformed arrays a caller may pass to decode, new Array(7) and
\* [1, 1, , 0, 0, 0, 0] among them.
BadCodewords == { <<1, 0, 1>>, <<1, 0, 1, 0, 1, 0, 2>> }
SparseCodewords == { <<Hole, Hole, Hole, Hole, Hole, Hole, Hole>>,
                     <<1, 1, Hole, 0, 0, 0, 0>> }

\* The 128 arrays of 7 bits
BitWords == { <<a, b, c, d, e, f, g>> :
                a \in {0, 1}, b \in {0, 1}, c \in {0, 1}, d \in {0, 1},
                e \in {0, 1}, f \in {0, 1}, g \in {0, 1} }

\* errorRate arguments: -0.1, 0.0, 0.3, 1.0, 1.1
Rates == { Rat(-1, 10), Rat(0, 1), Rat(3, 10), Rat(1, 1), Rat(11, 10) }

\* Outcomes of n consecutive Math.random() calls
AllDraws(n) == [1..n -> RandVals]

\* Mutant: the array literal and the spread hand out the array that exists
AllocateReused(n) == n

\* [] and [...array] create a new array object: its identity
Allocate(n) == n + 1

SolverIdle ==
    /\ pc = "idle"
    /\ initialData = << >>
    /\ config = << >>
    /\ currentData = << >>
    /\ previousData = << >>
    /\ convergenceHistory = << >>
    /\ currentIteration = 0
    /\ isConverged = FALSE
    /\ convergenceError = Infinity
    /\ statistics = [totalRuns |-> 0, successfulConvergences |-> 0,
                     averageIterations |-> [whole |-> 0, fraction |-> << >>],
                     convergenceRates |-> << >>,
                     errorCorrectionEffectiveness |-> << >>]
    /\ result = << >>
    /\ calls = 0
    /\ statusBefore = << >>
    /\ held = << >>
    /\ historyRef = Allocate(0)
    /\ allocated = Allocate(0)
    /\ batch = Null
    /\ analysis = << >>

\* runCompleteSimulation calls of one application session
MaxRuns == 2

\* the state the RetrocausalSimulatorApp constructor sets up
AppIdle ==
    /\ inputBits = <<0, 0, 0, 0>>
    /\ parameters = [errorRate |-> Rat(5, 100), maxIterations |-> 100,
                     tolerance |-> Rat(1, 1000000)]
    /\ edits = 0
    /\ benchmarks = 0
    /\ simulation = [isRunning |-> FALSE, isPaused |-> FALSE,
                     currentStep |-> 0, results |-> Null]
    /\ simulationsRun = 0
    /\ requests = 0
    /\ task = [r \in 1..MaxRuns |-> [at |-> "none", i |-> 0, length |-> 0]]
    /\ timers = << >>

HammingIdle ==
    /\ hOp = "none"
    /\ hArg = << >>
    /\ hRate = Rat(0, 1)
    /\ hRet = Returned(<< >>)
    /\ hData = << >>
    /\ hSent = << >>
    /\ hWord = << >>

HInit == HammingIdle /\ SolverIdle /\ AppIdle

HEncode ==
    /\ hOp \in {"none", "encode", "calculateMinimumDistance"}
    /\ \E d \in DataInputs :
        LET r == encode(d)
        IN  /\ hOp' = "encode"
            /\ hArg' = d
            /\ hRet' = r
            /\ IF r.threw
               THEN UNCHANGED <<hData, hSent, hWord>>
               ELSE hData' = d /\ hSent' = r.value /\ hWord' = r.value
            /\ UNCHANGED <<hRate, svars, avars>>

\* corruptedCodeword[errorPos] ^= 1 on a copy of a fresh codeword
HFlipBit ==
    /\ hOp = "encode" /\ ~hRet.threw
    /\ \E errorPos \in 0..6 :
        /\ hOp' = "flip"
        /\ hArg' = hWord
        /\ hWord' = [hWord EXCEPT ![errorPos + 1] = Xor(hWord[errorPos + 1], 1)]
        /\ hRet' = Returned(hWord')
        /\ UNCHANGED <<hRate, hData, hSent, svars, avars>>

HInjectErrors ==
    /\ hOp \in {"encode", "flip"} /\ ~hRet.threw
    /\ \E errorRate \in Rates :
        \E noisyCodeword \in { injectErrors(hWord, errorRate, draws) :
                                 draws \in AllDraws(7) } :
            /\ hOp' = "injectErrors"
            /\ hArg' = hWord
            /\ hRate' = errorRate
            /\ hRet' = Returned(noisyCodeword)
            /\ hWord' = noisyCodeword
            /\ UNCHANGED <<hData, hSent, svars, avars>>

HDecode ==
    /\ hOp \in {"encode", "flip", "injectErrors"} /\ ~hRet.threw
    /\ \E c \in {hWord} \cup BadCodewords \cup SparseCodewords :
        /\ hOp' = "decode"
        /\ hArg' = c
        /\ hRet' = decode(c)
        /\ UNCHANGED <<hRate, hData, hSent, hWord, svars, avars>>

HMinimumDistance ==
    /\ hOp = "none"
    /\ hOp' = "calculateMinimumDistance"
    /\ hArg' = [k \in 1..16 |-> generateCodebook[k].codeword]
    /\ hRet' = Returned(calculateMinimumDistance)
    /\ UNCHANGED <<hRate, hData, hSent, hWord, svars, avars>>

HNext == HEncode \/ HFlipBit \/ HInjectErrors \/ HDecode \/ HMinimumDistance

HammingSpec == HInit /\ [][HNext]_vars

(***************************************************************************)
(* A caller of solveFixedPoint on a fresh solver.                          *)
(***************************************************************************)
\* Largest maxIterations a caller passes with an errorRate of 0.0, 1.0 or 1.5.
MaxIter == 2
\* Most draws below the error rate among the 7 draws of one injectErrors
\* call when the rate lies strictly between 0 and 1.
MaxFlips == 2

\* adaptive step off, or on with dampingFactor 0, 0.5, 1
DampingChoices ==
    { <<FALSE, Rat(1, 2)>>, <<TRUE, Rat(0, 1)>>, <<TRUE, Rat(1, 2)>>, <<TRUE, Rat(1, 1)>> }

\* convergenceTolerance 1e-6 and 0.5
ToleranceChoices == { Rat(1, 1000000), Rat(1, 2) }

ParamsOf(maxIters, tolerances, errorRates, dampings) ==
    { [maxIterations |-> m, convergenceTolerance |-> t, errorRate |-> e,
       dampingFactor |-> d[2], enableAdaptiveStep |-> d[1]] :
         m \in maxIters, t \in tolerances, e \in errorRates, d \in dampings }

\* errorRate 0.0 and 1.0: the noise does not depend on the draws
FixedNoiseParams ==
    ParamsOf(0..MaxIter, ToleranceChoices, { Rat(0, 1), Rat(1, 1) }, DampingChoices)

\* errorRate 0.3: the noise depends on the draws.  One or two iterations
\* without the adaptive step; one iteration with it (its draws multiply
\* the outcomes of every iteration).
RandomNoiseParams ==
    ParamsOf({1, 2}, ToleranceChoices, { Rat(3, 10) }, { <<FALSE, Rat(1, 2)>> })
    \cup ParamsOf({1}, ToleranceChoices, { Rat(3, 10) }, { <<TRUE, Rat(1, 2)>> })

\* Configurations outside the documented ranges: maxIterations -1,
\* convergenceTolerance -1e-6, errorRate 1.5 and -0.1
InvalidParams ==
    ParamsOf({-1}, ToleranceChoices, { Rat(0, 1), Rat(3, 10) }, DampingChoices)
    \cup ParamsOf({1}, { Rat(-1, 1000000) }, { Rat(0, 1), Rat(1, 1) }, DampingChoices)
    \cup ParamsOf({1}, ToleranceChoices, { Rat(3, 2), Rat(-1, 10) }, DampingChoices)

FullParams == FixedNoiseParams \cup RandomNoiseParams \cup InvalidParams

\* Parameter objects that leave keys to the defaults.
PartialParams ==
    { [maxIterations |-> -1],
      [maxIterations |-> MaxIter, errorRate |-> Rat(0, 1)] }

ParamChoices == FullParams \cup PartialParams

LowDraws(draws) == Cardinality({i \in DOMAIN draws : draws[i] = Rat(0, 1)})
NoiseDraws == { draws \in AllDraws(7) : LowDraws(draws) <= MaxFlips }

\* this.statistics.successfulConvergences / this.statistics.totalRuns, or 0
getStatus ==
    [currentIteration |-> currentIteration,
     isConverged |-> isConverged,
     convergenceError |-> convergenceError,
     historyLength |-> Len(convergenceHistory),
     totalRuns |-> statistics.totalRuns,
     successRate |->
        IF statistics.totalRuns > 0
        THEN Rat(statistics.successfulConvergences, statistics.totalRuns)
        ELSE Rat(0, 1)]

\* The results the caller holds, once the array ref has the content history:
\* a result whose convergenceHistory is that very array shows the new content.
Visible(results, ref, history) ==
    [k \in 1..Len(results) |->
        IF results[k].historyRef = ref
        THEN [results[k] EXCEPT !.result.convergenceHistory = history]
        ELSE results[k]]

Init == HammingIdle /\ SolverIdle /\ AppIdle

\* solveFixedPoint(data, params) up to the first loop test: merge, reset,
\* copy the input
Call(data, params) ==
    /\ statusBefore' = getStatus
    /\ calls' = calls + 1
    /\ initialData' = data
    /\ config' = MergeParams(defaultParams, params)
    /\ currentData' = Spread(data)
    \* resetIterationState
    /\ historyRef' = Allocate(allocated)
    /\ allocated' = Allocate(allocated)
    /\ convergenceHistory' = << >>
    /\ held' = Visible(held, historyRef', << >>)
    /\ currentIteration' = 0
    /\ isConverged' = FALSE
    /\ convergenceError' = Infinity
    /\ previousData' = Null
    /\ pc' = "loop"
    /\ UNCHANGED <<statistics, result>>

StartSolve ==
    /\ pc = "idle"
    /\ \E data \in DataInputs, params \in ParamChoices : Call(data, params)
    /\ UNCHANGED <<batch, analysis, hvars, avars>>

\* one pass through the body of the for loop, the random source drawing the
\* transmission noise from noise
Step(noise) ==
    /\ pc = "loop"
    /\ currentIteration < config.maxIterations
    /\ previousData' = currentData
    /\ \E evolution \in { applySingleEvolutionCycle(currentData, config, draws) :
                            draws \in noise } :
        IF evolution.threw
        THEN /\ pc' = "threw"
             /\ batch' = Null
             /\ UNCHANGED <<currentData, convergenceHistory, currentIteration,
                            isConverged, convergenceError, held>>
        ELSE
        LET evolutionResult == evolution.value
            finalData == evolutionResult.finalData
            error == calculateConvergenceError(finalData, currentData)
        IN  /\ convergenceError' = error
            /\ convergenceHistory' =
                  Append(convergenceHistory,
                         IterationRecord(currentIteration, finalData, error,
                                         evolutionResult))
            /\ held' = Visible(held, historyRef, convergenceHistory')
            /\ UNCHANGED batch
            /\ IF LessEq(error, config.convergenceTolerance)
               THEN /\ isConverged' = TRUE
                    /\ currentData' = finalData
                    /\ pc' = "exit"
                    /\ UNCHANGED currentIteration
               ELSE /\ UNCHANGED isConverged
                    /\ IF config.enableAdaptiveStep
                       THEN currentData' \in
                              { applyAdaptiveStep(finalData, currentData,
                                                  config, ddraws) :
                                  ddraws \in AllDraws(4) }
                       ELSE currentData' = finalData
                    /\ currentIteration' = currentIteration + 1
                    /\ pc' = "loop"
    /\ UNCHANGED <<initialData, config, statistics, result, calls, statusBefore,
                   historyRef, allocated, analysis, hvars, avars>>

Iterate == Step(NoiseDraws)

\* the loop is left (break, or the loop test fails): updateStatistics and
\* createSolutionReport, whose convergenceHistory is a new array
Return ==
    /\ \/ pc = "exit"
       \/ pc = "loop" /\ ~(currentIteration < config.maxIterations)
    /\ statistics' = updatedStatistics
    /\ result' = createSolutionReport(currentData, config)
    /\ allocated' = Allocate(allocated)
    /\ held' = Append(held, [result |-> result',
                             historyRef |-> Allocate(allocated),
                             initialData |-> initialData])
    /\ pc' = "returned"
    /\ UNCHANGED <<initialData, config, currentData, previousData,
                   convergenceHistory, currentIteration, isConverged,
                   convergenceError, calls, statusBefore, historyRef, batch,
                   analysis, hvars, avars>>

Next == StartSolve \/ Iterate \/ Return

Spec == Init /\ [][Next]_vars

(***************************************************************************)
(* A session on one solver: solveFixedPoint and runStatisticalAnalysis     *)
(* called one after the other, MaxCalls solves in all.                     *)
(***************************************************************************)
MaxCalls == 2

\* Arrays the session passes to solveFixedPoint
SessionData == { <<1, 0, 1, 0>>, <<1, 0, 2>>, <<1, Hole, 0, 1>> }

\* Parameter objects of the session: errorRate 0.0 and 0.3 with the other
\* settings equal, and errorRate 1.0
SessionParams ==
    { [maxIterations |-> 2, errorRate |-> Rat(0, 1), enableAdaptiveStep |-> FALSE],
      [maxIterations |-> 2, errorRate |-> Rat(3, 10), enableAdaptiveStep |-> FALSE],
      [maxIterations |-> MaxIter, errorRate |-> Rat(1, 1),
       enableAdaptiveStep |-> FALSE] }

\* baseParams of runStatisticalAnalysis: with a convergenceTolerance, and
\* with the keys of the application's parameter record (errorRate,
\* maxIterations, tolerance), which has no convergenceTolerance
AnalysisParams ==
    { [maxIterations |-> 1, errorRate |-> Rat(0, 1),
       convergenceTolerance |-> Rat(1, 1000000), enableAdaptiveStep |-> FALSE],
      [maxIterations |-> 1, errorRate |-> Rat(0, 1),
       tolerance |-> Rat(1, 1000000), enableAdaptiveStep |-> FALSE] }

\* The transmission noise of the session: the random source returns its
\* least value only in the first two draws of a transmission (no flip, a
\* flip of p1, of p2, or of both).
SessionNoise ==
    { draws \in AllDraws(7) : \A i \in 3..7 : draws[i] # Rat(0, 1) }

\* Array.from({length: 4}, () => Math.random() < 0.5 ? 1 : 0), for four
\* equal draws
RandomData ==
    { [i \in 1..4 |-> IF Less(draws[i], Rat(1, 2)) THEN 1 ELSE 0] :
        draws \in { d \in AllDraws(4) : \A i \in 2..4 : d[i] = d[1] } }

\* obj.key for a numeric key: undefined when the key is absent
Field(obj, key) == IF key \in DOMAIN obj THEN obj[key] ELSE NaN

Sum(a, b) ==
    IF IsNaN(a) \/ IsNaN(b) THEN NaN
    ELSE Rat(a[1] * b[2] + b[1] * a[2], a[2] * b[2])

\* (Math.random() - 0.5) * 0.02 for the draw r
Jitter(r) == Rat(2 * r[1] - r[2], 100 * r[2])

\* the params object of one run of runStatisticalAnalysis
RunParams(baseParams, r) ==
    MergeParams(baseParams,
                [errorRate |-> Sum(Field(baseParams, "errorRate"), Jitter(r)),
                 convergenceTolerance |-> Field(baseParams, "convergenceTolerance")])

Callable == pc \in {"idle", "returned", "threw", "analysed"} /\ batch = Null

SessionSolve ==
    /\ Callable
    /\ calls < MaxCalls
    /\ \E data \in SessionData, params \in SessionParams : Call(data, params)
    /\ UNCHANGED <<batch, analysis, hvars, avars>>

SessionIterate == Step(SessionNoise)

\* runStatisticalAnalysis(numRuns, baseParams) up to the first loop test
StartAnalysis ==
    /\ Callable
    /\ \E numRuns \in 0..(MaxCalls - calls), baseParams \in AnalysisParams :
        batch' = [numRuns |-> numRuns, baseParams |-> baseParams, run |-> 0,
                  results |-> << >>, successCount |-> 0, totalIterations |-> 0]
    /\ pc' = "analysis"
    /\ UNCHANGED <<initialData, config, currentData, previousData,
                   convergenceHistory, currentIteration, isConverged,
                   convergenceError, statistics, result, calls, statusBefore,
                   held, historyRef, allocated, analysis, hvars, avars>>

\* the loop body up to the call of solveFixedPoint
AnalysisRun ==
    /\ pc = "analysis"
    /\ batch.run < batch.numRuns
    /\ \E data \in RandomData, r \in RandVals :
        Call(data, RunParams(batch.baseParams, r))
    /\ UNCHANGED <<batch, analysis, hvars, avars>>

\* the loop body after solveFixedPoint returned
AnalysisCollect ==
    /\ pc = "returned"
    /\ batch # Null
    /\ batch' = [batch EXCEPT
                    !.results = Append(@, result),
                    !.successCount = IF result.converged THEN @ + 1 ELSE @,
                    !.totalIterations =
                        IF result.converged THEN @ + result.iterations ELSE @,
                    !.run = @ + 1]
    /\ pc' = "analysis"
    /\ UNCHANGED <<initialData, config, currentData, previousData,
                   convergenceHistory, currentIteration, isConverged,
                   convergenceError, statistics, result, calls, statusBefore,
                   held, historyRef, allocated, analysis, hvars, avars>>

\* the loop test fails: the metrics.  The convergence-rate figures and the
\* distribution statistics (logarithms, square roots) are not modelled.
AnalysisReturn ==
    /\ pc = "analysis"
    /\ ~(batch.run < batch.numRuns)
    /\ analysis' =
          [numRuns |-> batch.numRuns,
           baseParams |-> batch.baseParams,
           value |->
              [totalRuns |-> batch.numRuns,
               successRate |-> Rat(batch.successCount, batch.numRuns),
               averageIterations |->
                  IF batch.successCount > 0
                  THEN Rat(batch.totalIterations, batch.successCount)
                  ELSE Rat(0, 1),
               results |-> batch.results]]
    /\ batch' = Null
    /\ pc' = "analysed"
    /\ UNCHANGED <<initialData, config, currentData, previousData,
                   convergenceHistory, currentIteration, isConverged,
                   convergenceError, statistics, result, calls, statusBefore,
                   held, historyRef, allocated, hvars, avars>>

SessionNext ==
    \/ SessionSolve \/ SessionIterate \/ Return
    \/ StartAnalysis \/ AnalysisRun \/ AnalysisCollect \/ AnalysisReturn

SessionSpec == Init /\ [][SessionNext]_vars

(***************************************************************************)
(* The application: runCompleteSimulation, animateConvergenceProcess and   *)
(* resetSimulation on one RetrocausalSimulatorApp.  JavaScript runs one    *)
(* event handler at a time up to its next await; the only await that gives *)
(* way to other events is sleep(150) in the animation loop.  A call of     *)
(* runCompleteSimulation is at "solving" from its start to the first       *)
(* sleep (synchronous code: no other event is taken), at "sleeping" while  *)
(* its timer is pending, and at "done" after its finally block; a call     *)
(* that found isRunning set is at "rejected".                              *)
(***************************************************************************)
\* input events and benchmark requests of one application session
MaxEdits == 2
MaxBenchmarks == 1

\* runStatisticalAnalysis(50, ...)
BenchmarkRuns == 50

\* values the parameter controls deliver
ErrorRateInputs == { Rat(0, 1), Rat(5, 100) }
MaxIterationsInputs == {0, 1}
ToleranceInputs == { Rat(1, 1000) }

\* The transmission noise of the application's runs: no flip, a flip of p1,
\* or a flip of p1 and p2.
AppNoise ==
    { draws \in AllDraws(7) :
        /\ \A i \in 3..7 : draws[i] # Rat(0, 1)
        /\ draws[2] = Rat(0, 1) => draws[1] = Rat(0, 1) }

\* no event handler is in its synchronous part
Quiescent == \A r \in 1..MaxRuns : task[r].at # "solving"

\* The end of runCompleteSimulation after the animation: the result is
\* displayed, this.updatePerformanceMetrics, which the class does not
\* define, throws a TypeError before analytics.simulationsRun++ is reached,
\* the catch block reports it, and finally isRunning is cleared.
Finished(r) ==
    /\ simulation' = [simulation EXCEPT !.isRunning = FALSE]
    /\ task' = [task EXCEPT ![r].at = "done"]
    /\ UNCHANGED simulationsRun

\* 'change' on a .bit-checkbox: the bit is written into the inputBits array;
\* the encode of updateSimulation changes no state
AppToggleBit ==
    /\ Quiescent
    /\ edits < MaxEdits
    /\ edits' = edits + 1
    /\ \E index \in 1..4, checked \in BOOLEAN :
        inputBits' = [inputBits EXCEPT ![index] = IF checked THEN 1 ELSE 0]
    /\ UNCHANGED <<parameters, simulation, simulationsRun, requests, benchmarks,
                   task, timers, hvars, svars>>

\* 'input' on #error-rate
AppSetErrorRate ==
    /\ Quiescent
    /\ edits < MaxEdits
    /\ edits' = edits + 1
    /\ \E value \in ErrorRateInputs :
        parameters' = [parameters EXCEPT !.errorRate = value]
    /\ UNCHANGED <<inputBits, simulation, simulationsRun, requests, benchmarks,
                   task, timers, hvars, svars>>

\* 'input' on #max-iterations
AppSetMaxIterations ==
    /\ Quiescent
    /\ edits < MaxEdits
    /\ edits' = edits + 1
    /\ \E value \in MaxIterationsInputs :
        parameters' = [parameters EXCEPT !.maxIterations = value]
    /\ UNCHANGED <<inputBits, simulation, simulationsRun, requests, benchmarks,
                   task, timers, hvars, svars>>

\* 'change' on #tolerance
AppSetTolerance ==
    /\ Quiescent
    /\ edits < MaxEdits
    /\ edits' = edits + 1
    /\ \E value \in ToleranceInputs :
        parameters' = [parameters EXCEPT !.tolerance = value]
    /\ UNCHANGED <<inputBits, simulation, simulationsRun, requests, benchmarks,
                   task, timers, hvars, svars>>

\* a simulate request (button, Ctrl+R): runCompleteSimulation up to the
\* call of solveFixedPoint, or its early return; explored once the
\* iteration limit is within MaxIter
AppSimulate ==
    /\ Quiescent
    /\ requests < MaxRuns
    /\ parameters.maxIterations <= MaxIter
    /\ requests' = requests + 1
    /\ IF simulation.isRunning
       THEN /\ task' = [task EXCEPT ![requests'].at = "rejected"]
            /\ UNCHANGED <<simulation, svars>>
       ELSE /\ simulation' = [simulation EXCEPT !.isRunning = TRUE]
            /\ task' = [task EXCEPT ![requests'].at = "solving"]
            /\ Call(inputBits, parameters)
            /\ UNCHANGED <<batch, analysis>>
    /\ UNCHANGED <<inputBits, parameters, simulationsRun, edits, benchmarks,
                   timers, hvars>>

\* solveFixedPoint running inside runCompleteSimulation
AppIterate == ~Quiescent /\ Step(AppNoise)

AppReturn == ~Quiescent /\ Return

\* solveFixedPoint has returned or thrown: the result is stored and the
\* animation shows its first record and sleeps; with no record to show
\* the call ends at once; a failure is caught and the finally block clears
\* isRunning
AppAnimate ==
    /\ pc \in {"returned", "threw"}
    /\ \E r \in 1..MaxRuns :
        /\ task[r].at = "solving"
        /\ IF pc = "threw"
           THEN /\ simulation' = [simulation EXCEPT !.isRunning = FALSE]
                /\ task' = [task EXCEPT ![r].at = "done"]
                /\ UNCHANGED timers
           ELSE IF Len(result.convergenceHistory) = 0
           THEN /\ simulation' = [simulation EXCEPT !.results = result,
                                                    !.isRunning = FALSE]
                /\ task' = [task EXCEPT ![r].at = "done"]
                /\ UNCHANGED timers
           ELSE /\ simulation' = [simulation EXCEPT !.results = result]
                /\ task' = [task EXCEPT
                               ![r] = [at |-> "sleeping", i |-> 0,
                                       length |-> Len(result.convergenceHistory)]]
                /\ timers' = Append(timers, r)
    /\ UNCHANGED <<inputBits, parameters, simulationsRun, requests, edits,
                   benchmarks, hvars, svars>>

\* the oldest sleep(150) timer fires: the animation loop of that call tests
\* isRunning and its index, shows the next record and sleeps again, or ends
AppWake ==
    /\ Quiescent
    /\ timers # << >>
    /\ LET r == Head(timers)
       IN  IF ~simulation.isRunning \/ ~(task[r].i + 1 < task[r].length)
           THEN /\ Finished(r)
                /\ timers' = Tail(timers)
           ELSE /\ task' = [task EXCEPT ![r].i = @ + 1]
                /\ timers' = Append(Tail(timers), r)
                /\ UNCHANGED <<simulation, simulationsRun>>
    /\ UNCHANGED <<inputBits, parameters, requests, edits, benchmarks, hvars,
                   svars>>

\* resetSimulation (button, Escape); the encode of updateSimulation changes
\* no state
AppReset ==
    /\ Quiescent
    /\ inputBits' = <<0, 0, 0, 0>>
    /\ simulation' = [isRunning |-> FALSE, isPaused |-> FALSE,
                      currentStep |-> 0, results |-> Null]
    /\ UNCHANGED <<parameters, simulationsRun, requests, edits, benchmarks,
                   task, timers, hvars, svars>>

(***************************************************************************)
(* runBenchmarkAnalysis contains no await: its 50 solveFixedPoint calls    *)
(* run before any other event is taken, so the benchmark is one step.  The *)
(* operators below compute that step: the iteration of one solveFixedPoint *)
(* call on a record of the fields the loop works on, and its effect on the *)
(* solver object and on the frame of runStatisticalAnalysis.  The data the *)
(* batch generates is four bits, so no cycle throws.  The history array of *)
(* a call is a new object, which no result returned earlier holds.         *)
(***************************************************************************)
\* The random source during a benchmark: every Math.random() call returns
\* 0.9 (initial data [0,0,0,0], a jitter of +0.008, no bit flipped), so the
\* 50 calls of a batch iterate alike.
BenchmarkDraws == { Rat(9, 10) }

\* solveFixedPoint(data, params) up to the first loop test: the
\* configuration and the iteration state
Started(data, params) ==
    [initialData |-> data,
     config |-> MergeParams(defaultParams, params),
     currentData |-> Spread(data),
     previousData |-> Null,
     convergenceHistory |-> << >>,
     currentIteration |-> 0,
     isConverged |-> FALSE,
     convergenceError |-> Infinity]

\* one pass through the body of the for loop, every Math.random() call
\* returning draw
Cycled(s, draw) ==
    LET evolutionResult ==
            applySingleEvolutionCycle(s.currentData, s.config,
                                      [i \in 1..7 |-> draw]).value
        finalData == evolutionResult.finalData
        error == calculateConvergenceError(finalData, s.currentData)
        recorded ==
            [s EXCEPT !.previousData = s.currentData,
                      !.convergenceError = error,
                      !.convergenceHistory =
                          Append(@, IterationRecord(s.currentIteration, finalData,
                                                    error, evolutionResult))]
    IN  IF LessEq(error, s.config.convergenceTolerance)
        THEN [recorded EXCEPT !.isConverged = TRUE, !.currentData = finalData]
        ELSE [recorded EXCEPT
                !.currentData =
                    IF s.config.enableAdaptiveStep
                    THEN applyAdaptiveStep(finalData, s.currentData, s.config,
                                           [i \in 1..4 |-> draw])
                    ELSE finalData,
                !.currentIteration = @ + 1]

\* the for loop of solveFixedPoint from the loop test on: the iteration
\* state when the loop is left (break, or the loop test fails)
RECURSIVE solveFixedPointLoop(_, _)
solveFixedPointLoop(s, draw) ==
    IF s.isConverged \/ ~(s.currentIteration < s.config.maxIterations) THEN {s}
    ELSE UNION { solveFixedPointLoop(next, draw) : next \in {Cycled(s, draw)} }

\* the solver object and the arrays its callers hold
SolverObject ==
    [currentIteration |-> currentIteration, isConverged |-> isConverged,
     convergenceError |-> convergenceError,
     convergenceHistory |-> convergenceHistory, statistics |-> statistics,
     result |-> result, calls |-> calls, statusBefore |-> statusBefore,
     held |-> held, historyRef |-> historyRef, allocated |-> allocated]

\* getStatus() of the solver object o
getStatusOf(o) ==
    [currentIteration |-> o.currentIteration,
     isConverged |-> o.isConverged,
     convergenceError |-> o.convergenceError,
     historyLength |-> Len(o.convergenceHistory),
     totalRuns |-> o.statistics.totalRuns,
     successRate |->
        IF o.statistics.totalRuns > 0
        THEN Rat(o.statistics.successfulConvergences, o.statistics.totalRuns)
        ELSE Rat(0, 1)]

\* createSolutionReport for the iteration state s
Report(s) ==
    [finalState |-> s.currentData,
     converged |-> s.isConverged,
     iterations |-> s.currentIteration + 1,
     finalError |-> s.convergenceError,
     parameters |-> s.config,
     convergenceHistory |-> s.convergenceHistory,
     convergenceRate |-> calculateConvergenceRate(s.convergenceHistory),
     errorCorrectionStats |-> analyzeErrorCorrection(s.convergenceHistory),
     memoryUsage |-> estimateMemoryUsage(s.convergenceHistory)]

\* the solver object o after a solveFixedPoint call that left its loop in
\* the iteration state s and returned report: resetIterationState, the
\* loop, updateStatistics, and the copy of the history in the report
Solved(o, s, report) ==
    [currentIteration |-> s.currentIteration,
     isConverged |-> s.isConverged,
     convergenceError |-> s.convergenceError,
     convergenceHistory |-> s.convergenceHistory,
     statistics |->
        [o.statistics EXCEPT
            !.totalRuns = @ + 1,
            !.successfulConvergences = IF s.isConverged THEN @ + 1 ELSE @,
            !.averageIterations = ExponentialAverage(s.currentIteration + 1, @)],
     result |-> report,
     calls |-> o.calls + 1,
     statusBefore |-> getStatusOf(o),
     held |-> Append(o.held, [result |-> report,
                              historyRef |-> Allocate(Allocate(o.allocated)),
                              initialData |-> s.initialData]),
     historyRef |-> Allocate(o.allocated),
     allocated |-> Allocate(Allocate(o.allocated))]

\* the loop body of runStatisticalAnalysis: solveFixedPoint, the result
\* pushed and counted
Collected(f, s, report) ==
    [solver |-> Solved(f.solver, s, report),
     batch |->
        [f.batch EXCEPT
            !.results = Append(@, report),
            !.successCount = IF report.converged THEN @ + 1 ELSE @,
            !.totalIterations =
                IF report.converged THEN @ + report.iterations ELSE @,
            !.run = @ + 1]]

\* n passes of the for loop of runStatisticalAnalysis from the solver object
\* and frame f, each solveFixedPoint call leaving its loop in the state s;
\* the passes are taken in two halves, which keeps the evaluation shallow
RECURSIVE runStatisticalAnalysisLoop(_, _, _, _)
runStatisticalAnalysisLoop(f, n, s, report) ==
    IF n = 0 THEN {f}
    ELSE IF n = 1 THEN {Collected(f, s, report)}
    ELSE UNION { runStatisticalAnalysisLoop(g, n - (n \div 2), s, report) :
                    g \in runStatisticalAnalysisLoop(f, n \div 2, s, report) }

\* runBenchmarkAnalysis (.analysis-button): runStatisticalAnalysis(50,
\* currentState.parameters); the handler then calls
\* this.updateAnalysisMetrics, which the class does not define: the
\* TypeError is caught and no application state changes.  Explored once
\* the iteration limit is within MaxIter.
AppBenchmark ==
    /\ Quiescent
    /\ benchmarks < MaxBenchmarks
    /\ parameters.maxIterations <= MaxIter
    /\ benchmarks' = benchmarks + 1
    /\ \E draw \in BenchmarkDraws :
       \E s \in solveFixedPointLoop(
                   Started([i \in 1..4 |-> IF Less(draw, Rat(1, 2)) THEN 1 ELSE 0],
                           RunParams(parameters, draw)),
                   draw) :
       \E report \in {Report(s)} :
       \E left \in runStatisticalAnalysisLoop(
                      [solver |-> SolverObject,
                       batch |-> [numRuns |-> BenchmarkRuns,
                                  baseParams |-> parameters,
                                  run |-> 0, results |-> << >>,
                                  successCount |-> 0, totalIterations |-> 0]],
                      BenchmarkRuns, s, report) :
        LET o == left.solver
            b == left.batch
        IN  /\ initialData' = s.initialData
            /\ config' = s.config
            /\ currentData' = s.currentData
            /\ previousData' = s.previousData
            /\ convergenceHistory' = o.convergenceHistory
            /\ currentIteration' = o.currentIteration
            /\ isConverged' = o.isConverged
            /\ convergenceError' = o.convergenceError
            /\ statistics' = o.statistics
            /\ result' = o.result
            /\ calls' = o.calls
            /\ statusBefore' = o.statusBefore
            /\ held' = o.held
            /\ historyRef' = o.historyRef
            /\ allocated' = o.allocated
            /\ analysis' =
                  [numRuns |-> b.numRuns,
                   baseParams |-> b.baseParams,
                   value |->
                      [totalRuns |-> b.numRuns,
                       successRate |-> Rat(b.successCount, b.numRuns),
                       averageIterations |->
                          IF b.successCount > 0
                          THEN Rat(b.totalIterations, b.successCount)
                          ELSE Rat(0, 1),
                       results |-> b.results]]
    /\ batch' = Null
    /\ pc' = "analysed"
    /\ UNCHANGED <<inputBits, parameters, simulation, simulationsRun, requests,
                   edits, task, timers, hvars>>

AppNext ==
    \/ AppToggleBit \/ AppSetErrorRate \/ AppSetMaxIterations \/ AppSetTolerance
    \/ AppSimulate \/ AppIterate \/ AppReturn \/ AppAnimate \/ AppWake
    \/ AppReset \/ AppBenchmark

AppSpec == Init /\ [][AppNext]_vars

(***************************************************************************)
(* Properties of HammingCode (checked under HammingSpec)                   *)
(***************************************************************************)
Complement(word) == [i \in 1..Len(word) |-> 1 - word[i]]

DecodedReceived == hOp = "decode" /\ ~hRet.threw

\* C1: decoding encode(d) with exactly one bit flipped, at any of the 7
\* positions, returns dataBits = d, errorDetected = true, errorPosition =
\* the flipped position and correctedCodeword = encode(d).
C1_SingleErrorCorrected ==
    (/\ DecodedReceived
     /\ hData \in DataWords
     /\ hArg \in BitWords
     /\ hammingDistance(hArg, hSent) = 1) =>
        /\ hRet.value.dataBits = hData
        /\ hRet.value.errorDetected = TRUE
        /\ hRet.value.errorPosition \in 0..6
        /\ hArg[hRet.value.errorPosition + 1] # hSent[hRet.value.errorPosition + 1]
        /\ hRet.value.correctedCodeword = hSent

C1_Witness ==
    /\ DecodedReceived
    /\ hData = <<1, 0, 1, 1>>
    /\ hammingDistance(hArg, hSent) = 1
    /\ hArg[7] # hSent[7]
    /\ hRet.value.errorPosition = 6
    /\ hRet.value.dataBits = <<1, 0, 1, 1>>

\* C2: decoding an unmodified encode(d) returns dataBits = d with
\* errorDetected = false, errorPosition = -1 and syndrome [0,0,0].
C2_RoundTrip ==
    (DecodedReceived /\ hData \in DataWords /\ hArg = hSent) =>
        /\ hRet.value.dataBits = hData
        /\ hRet.value.errorDetected = FALSE
        /\ hRet.value.errorPosition = -1
        /\ hRet.value.syndrome = <<0, 0, 0>>

C2_Witness ==
    /\ DecodedReceived
    /\ hArg = hSent
    /\ hData = <<0, 1, 1, 0>>
    /\ hRet.value.dataBits = <<0, 1, 1, 0>>

\* C3: the 16 codewords of the codebook are pairwise distinct and
\* calculateMinimumDistance returns 3.
C3_MinimumDistance ==
    hOp = "calculateMinimumDistance" =>
        /\ hRet.value = 3
        /\ Cardinality({ hArg[k] : k \in 1..16 }) = 16
        /\ \A i, j \in 1..16 : i # j => hammingDistance(hArg[i], hArg[j]) >= 3
        /\ \E i, j \in 1..16 : hammingDistance(hArg[i], hArg[j]) = 3

C3_Witness ==
    /\ hOp = "calculateMinimumDistance"
    /\ hRet.value = 3
    /\ Len(hArg) = 16

\* C9: injectErrors(code, 0.0) returns code and injectErrors(code, 1.0)
\* returns the bitwise complement of code, whatever the random source draws.
C9_InjectErrorsExtremes ==
    hOp = "injectErrors" =>
        /\ RatEq(hRate, Rat(0, 1)) => hRet.value = hArg
        /\ RatEq(hRate, Rat(1, 1)) => hRet.value = Complement(hArg)

C9_Witness ==
    /\ hOp = "injectErrors"
    /\ RatEq(hRate, Rat(1, 1))
    /\ hArg = <<1, 1, 1, 0, 0, 0, 0>>
    /\ hRet.value = <<0, 0, 0, 1, 1, 1, 1>>

\* C10: injectErrors called with a rate outside [0,1] fails with an error
\* instead of returning a codeword.
C10_RateOutOfRangeThrows ==
    (hOp = "injectErrors" /\ (Less(hRate, Rat(0, 1)) \/ Less(Rat(1, 1), hRate))) =>
        hRet.threw

\* C11: encode fails with an error for every input that is not an array of
\* exactly 4 values each 0 or 1, decode fails for every input that is not an
\* array of exactly 7 such values, a failing call returns nothing, and valid
\* inputs never fail.
C11_MalformedInputRejected ==
    /\ hOp = "encode" => (hRet.threw <=> hArg \notin DataWords)
    /\ hOp = "decode" => (hRet.threw <=> hArg \notin BitWords)
    /\ (hOp \in {"encode", "decode"} /\ hRet.threw) => hRet.value = << >>

Encoded == hOp = "encode" /\ ~hRet.threw /\ hArg \in DataWords

\* C15: for each of the 16 DataWords [d1,d2,d3,d4], encode returns exactly
\* [p1,p2,d1,p3,d2,d3,d4] with p1 = d1 xor d2 xor d4, p2 = d1 xor d3 xor d4
\* and p3 = d2 xor d3 xor d4.
C15_EncodeLayout ==
    Encoded =>
        LET d1 == hArg[1]
            d2 == hArg[2]
            d3 == hArg[3]
            d4 == hArg[4]
            p1 == (d1 + d2 + d4) % 2
            p2 == (d1 + d3 + d4) % 2
            p3 == (d2 + d3 + d4) % 2
        IN  hRet.value = <<p1, p2, d1, p3, d2, d3, d4>>

C15_Witness ==
    /\ Encoded
    /\ hArg = <<1, 0, 1, 1>>
    /\ hRet.value = <<0, 1, 1, 0, 0, 1, 1>>

\* C16 as stated: encode maps 0000 -> 0000000, 1000 -> 1110000,
\* 0100 -> 1001100, 0010 -> 0101010, 0001 -> 1101001 and 1111 -> 0110111.
C16_KnownEncodings ==
    Encoded =>
        /\ hArg = <<0, 0, 0, 0>> => hRet.value = <<0, 0, 0, 0, 0, 0, 0>>
        /\ hArg = <<1, 0, 0, 0>> => hRet.value = <<1, 1, 1, 0, 0, 0, 0>>
        /\ hArg = <<0, 1, 0, 0>> => hRet.value = <<1, 0, 0, 1, 1, 0, 0>>
        /\ hArg = <<0, 0, 1, 0>> => hRet.value = <<0, 1, 0, 1, 0, 1, 0>>
        /\ hArg = <<0, 0, 0, 1>> => hRet.value = <<1, 1, 0, 1, 0, 0, 1>>
        /\ hArg = <<1, 1, 1, 1>> => hRet.value = <<0, 1, 1, 0, 1, 1, 1>>

\* C16 amended: encode maps 0000 -> 0000000, 1000 -> 1110000,
\* 0100 -> 1001100, 0010 -> 0101010, 0001 -> 1101001 and 1111 -> 1111111.
C16_KnownEncodingsAmended ==
    Encoded =>
        /\ hArg = <<0, 0, 0, 0>> => hRet.value = <<0, 0, 0, 0, 0, 0, 0>>
        /\ hArg = <<1, 0, 0, 0>> => hRet.value = <<1, 1, 1, 0, 0, 0, 0>>
        /\ hArg = <<0, 1, 0, 0>> => hRet.value = <<1, 0, 0, 1, 1, 0, 0>>
        /\ hArg = <<0, 0, 1, 0>> => hRet.value = <<0, 1, 0, 1, 0, 1, 0>>
        /\ hArg = <<0, 0, 0, 1>> => hRet.value = <<1, 1, 0, 1, 0, 0, 1>>
        /\ hArg = <<1, 1, 1, 1>> => hRet.value = <<1, 1, 1, 1, 1, 1, 1>>

C16_Witness ==
    /\ Encoded
    /\ hArg = <<1, 1, 1, 1>>
    /\ hRet.value = <<1, 1, 1, 1, 1, 1, 1>>

\* the positions (1-indexed) where two words differ
Differing(word1, word2) == {i \in 1..Len(word1) : word1[i] # word2[i]}

\* C17: the syndrome value is v = s1 + 2 s2 + 4 s3 with s1, s2, s3 the
\* parities of the received word over positions {1,3,5,7}, {2,3,6,7},
\* {4,5,6,7}; a valid codeword with the single bit p flipped gives v = p;
\* decode flips exactly bit v when v is in 1..7 and no bit when v = 0, and
\* reads the data bits from positions 3, 5, 6, 7 of the corrected word.
C17_SyndromeLocatesError ==
    (DecodedReceived /\ hArg \in BitWords) =>
        LET r == hArg
            s1 == (r[1] + r[3] + r[5] + r[7]) % 2
            s2 == (r[2] + r[3] + r[6] + r[7]) % 2
            s3 == (r[4] + r[5] + r[6] + r[7]) % 2
            v == hRet.value.syndromeValue
            c == hRet.value.correctedCodeword
        IN  /\ hRet.value.syndrome = <<s1, s2, s3>>
            /\ v = s1 + 2 * s2 + 4 * s3
            /\ (hData \in DataWords /\ hammingDistance(r, hSent) = 1) =>
                  Differing(r, hSent) = {v}
            /\ v = 0 => c = r
            /\ v \in 1..7 => Differing(c, r) = {v}
            /\ hRet.value.dataBits = <<c[3], c[5], c[6], c[7]>>

C17_Witness ==
    /\ DecodedReceived
    /\ hSent = <<1, 1, 1, 0, 0, 0, 0>>
    /\ hArg = <<1, 1, 1, 0, 1, 0, 0>>
    /\ hRet.value.syndromeValue = 5
    /\ hRet.value.correctedCodeword = <<1, 1, 1, 0, 0, 0, 0>>
    /\ hRet.value.dataBits = <<1, 0, 0, 0>>

\* C25: decode is total and lands on the code: for each of the 128 7-bit
\* words it returns a correctedCodeword that is a valid codeword (syndrome
\* [0,0,0], equal to encode(dataBits)) and differs from the input in at
\* most one bit, in exactly one bit iff errorDetected is true.
C25_DecodeLandsOnCode ==
    (hOp = "decode" /\ hArg \in BitWords) =>
        /\ ~hRet.threw
        /\ LET c == hRet.value.correctedCodeword
           IN  /\ c \in BitWords
               /\ calculateSyndrome(c) = <<0, 0, 0>>
               /\ c = encode(hRet.value.dataBits).value
               /\ hammingDistance(c, hArg) <= 1
               /\ hammingDistance(c, hArg) = 1 <=> hRet.value.errorDetected = TRUE

\* a word at distance 2 from the codeword sent, corrected to another one
C25_Witness ==
    /\ hOp = "decode"
    /\ hSent = <<0, 0, 0, 0, 0, 0, 0>>
    /\ hArg = <<1, 0, 0, 0, 0, 0, 1>>
    /\ hRet.value.errorDetected
    /\ hRet.value.correctedCodeword = <<1, 0, 0, 0, 0, 1, 1>>
    /\ hRet.value.dataBits = <<0, 0, 1, 1>>

\* C20: decoding a valid codeword with two distinct bits flipped reports
\* errorDetected = true and returns dataBits that differ from the DataWord
\* that was encoded.
C20_DoubleErrorMiscorrected ==
    (/\ DecodedReceived
     /\ hData \in DataWords
     /\ hArg \in BitWords
     /\ hammingDistance(hArg, hSent) = 2) =>
        /\ hRet.value.errorDetected = TRUE
        /\ hRet.value.dataBits # hData

C20_Witness ==
    /\ DecodedReceived
    /\ hData = <<1, 0, 0, 0>>
    /\ hArg = <<0, 0, 1, 0, 0, 0, 0>>
    /\ hRet.value.errorDetected
    /\ hRet.value.errorPosition = 2
    /\ hRet.value.dataBits = <<0, 0, 0, 0>>

(***************************************************************************)
(* Properties of solveFixedPoint (checked under Spec)                      *)
(***************************************************************************)
ValidTolerance(cfg) ==
    /\ Less(Rat(0, 1), cfg.convergenceTolerance)
    /\ Less(cfg.convergenceTolerance, Rat(1, 1))

ValidErrorRate(cfg) ==
    /\ LessEq(Rat(0, 1), cfg.errorRate)
    /\ LessEq(cfg.errorRate, Rat(1, 1))

InvalidConfiguration(cfg) ==
    \/ cfg.maxIterations < 0
    \/ ~ValidTolerance(cfg)
    \/ ~ValidErrorRate(cfg)

LastRecord(history) == history[Len(history)]

\* C4: with errorRate 0.0, maxIterations >= 1 and a tolerance in (0,1),
\* every DataWord d converges to finalState = d within at most 3
\* iterations, for every damping setting.
C4_ZeroErrorRateConverges ==
    (/\ pc = "returned"
     /\ RatEq(config.errorRate, Rat(0, 1))
     /\ config.maxIterations >= 1
     /\ ValidTolerance(config)) =>
        /\ result.converged = TRUE
        /\ result.finalState = initialData
        /\ result.iterations <= 3

C4_Witness ==
    /\ pc = "returned"
    /\ RatEq(config.errorRate, Rat(0, 1))
    /\ config.maxIterations = 2
    /\ config.enableAdaptiveStep /\ RatEq(config.dampingFactor, Rat(1, 1))
    /\ ValidTolerance(config)
    /\ initialData = <<0, 1, 1, 0>>
    /\ result.converged /\ result.finalState = <<0, 1, 1, 0>>

\* C5: solveFixedPoint called with an invalid configuration (negative
\* maxIterations, tolerance outside (0,1), errorRate outside [0,1]) fails
\* before any iteration runs: no evolution cycle is executed and no
\* SolveResult is returned.
C5_InvalidConfigurationRejected ==
    (pc # "idle" /\ validateDataBits(initialData) /\ InvalidConfiguration(config)) =>
        /\ pc # "returned"
        /\ convergenceHistory = << >>

\* C6: in every SolveResult the reported iteration count is at most
\* maxIterations.
C6_IterationsWithinLimit ==
    (pc = "returned" /\ config.maxIterations >= 1 /\ ~InvalidConfiguration(config)) =>
        result.iterations <= config.maxIterations

\* C7: the solver stops at the first iteration whose convergence error is
\* <= tolerance; converged holds iff the last record's convergenceError is
\* <= tolerance; a converged result has finalError <= tolerance and
\* finalState equal to the last record's state.
C7_ConvergedIffToleranceMet ==
    /\ \A i \in 1..Len(convergenceHistory) :
          LessEq(convergenceHistory[i].convergenceError, config.convergenceTolerance)
            => (i = Len(convergenceHistory) /\ isConverged)
    /\ pc = "returned" =>
          /\ result.converged => Len(result.convergenceHistory) > 0
          /\ Len(result.convergenceHistory) > 0 =>
                (result.converged <=>
                    LessEq(LastRecord(result.convergenceHistory).convergenceError,
                           result.parameters.convergenceTolerance))
          /\ result.converged =>
                /\ LessEq(result.finalError, result.parameters.convergenceTolerance)
                /\ result.finalState = LastRecord(result.convergenceHistory).state

\* a run that converges at its second iteration on a miscorrected word
C7_Witness ==
    /\ pc = "returned"
    /\ result.converged
    /\ Len(result.convergenceHistory) = 2
    /\ RatEq(result.finalError, Rat(1, 4))
    /\ result.finalState # initialData

\* C8: when maxIterations iterations run without meeting the tolerance,
\* solveFixedPoint returns converged = false and finalState is the state of
\* the last IterationRecord, also when the adaptive step is enabled.
C8_ExhaustedReturnsLastState ==
    (/\ pc = "returned"
     /\ config.maxIterations >= 1
     /\ ~InvalidConfiguration(config)
     /\ ~result.converged
     /\ Len(result.convergenceHistory) = config.maxIterations) =>
        result.finalState = LastRecord(result.convergenceHistory).state

\* the DataWord iteration i (1-indexed record) started from when the
\* adaptive step is disabled
StartOf(history, i) == IF i = 1 THEN initialData ELSE history[i - 1].state

\* C21: every IterationRecord describes one encode -> injectErrors -> decode
\* cycle: encodedState is encode of the DataWord the iteration started from,
\* transmittedState is encodedState with the noise-selected bits flipped
\* (none at a rate <= 0, all at a rate >= 1), state is the dataBits of
\* decode(transmittedState), errorsCorrected and errorPosition are that
\* decode's flag and position; with the adaptive step disabled an iteration
\* starts from the previous record's state (the input for the first).
C21_RecordIsOneCycle ==
    LET h == convergenceHistory
    IN  /\ \A i \in 1..Len(h) :
             LET decoded == decode(h[i].transmittedState)
             IN  /\ h[i].encodedState \in BitWords
                 /\ h[i].transmittedState \in BitWords
                 /\ LessEq(config.errorRate, Rat(0, 1)) =>
                       h[i].transmittedState = h[i].encodedState
                 /\ LessEq(Rat(1, 1), config.errorRate) =>
                       h[i].transmittedState = Complement(h[i].encodedState)
                 /\ ~decoded.threw
                 /\ h[i].state = decoded.value.dataBits
                 /\ h[i].errorsCorrected = decoded.value.errorDetected
                 /\ h[i].errorPosition = decoded.value.errorPosition
                 /\ ~config.enableAdaptiveStep =>
                       h[i].encodedState = encode(StartOf(h, i)).value
        /\ Len(h) > 0 => h[Len(h)].encodedState = encode(previousData).value

\* a second cycle that starts from the miscorrected word of the first
C21_Witness ==
    /\ pc = "returned"
    /\ ~config.enableAdaptiveStep
    /\ Len(convergenceHistory) = 2
    /\ initialData = <<0, 0, 0, 0>>
    /\ convergenceHistory[1].transmittedState = <<1, 1, 0, 0, 0, 0, 0>>
    /\ convergenceHistory[1].errorsCorrected
    /\ convergenceHistory[1].errorPosition = 2
    /\ convergenceHistory[1].state = <<1, 0, 0, 0>>
    /\ convergenceHistory[2].encodedState = <<1, 1, 1, 0, 0, 0, 0>>

\* 0, 1/4, 1/2, 3/4, 1
IsQuarter(x) == \E k \in 0..4 : RatEq(x, Rat(k, 4))

\* C22: every IterationRecord's convergenceError is (number of positions
\* where the decoded DataWord differs from the DataWord the iteration
\* started from) / 4, one of 0, 1/4, 1/2, 3/4, 1, also in the first
\* iteration, where the comparison is with the initial input; finalError of
\* a result with at least one iteration is one of these five values.
C22_ErrorIsQuarterDistance ==
    LET h == convergenceHistory
    IN  /\ \A i \in 1..Len(h) :
             /\ IsQuarter(h[i].convergenceError)
             /\ ~config.enableAdaptiveStep =>
                   RatEq(h[i].convergenceError,
                         Rat(hammingDistance(h[i].state, StartOf(h, i)), 4))
        /\ Len(h) > 0 =>
             /\ RatEq(h[Len(h)].convergenceError,
                      Rat(hammingDistance(h[Len(h)].state, previousData), 4))
             /\ RatEq(convergenceError, h[Len(h)].convergenceError)
        /\ Len(h) > 0 =>
             RatEq(h[1].convergenceError,
                   Rat(hammingDistance(h[1].state, initialData), 4))
        /\ (pc = "returned" /\ Len(result.convergenceHistory) > 0) =>
             IsQuarter(result.finalError)

C22_Witness ==
    /\ pc = "returned"
    /\ Len(result.convergenceHistory) = 1
    /\ initialData = <<0, 0, 0, 0>>
    /\ convergenceHistory[1].state = <<1, 0, 0, 0>>
    /\ RatEq(convergenceHistory[1].convergenceError, Rat(1, 4))
    /\ RatEq(result.finalError, Rat(1, 4))

\* C23: after an iteration that did not converge, with the adaptive step
\* enabled the next working DataWord agrees with the candidate wherever
\* candidate and previous DataWord agree and takes the candidate's or the
\* previous value on each other bit; with dampingFactor 0 it is the
\* candidate, with dampingFactor 1 the previous DataWord; with the adaptive
\* step disabled it is the candidate.
C23_AdaptiveStepMixes ==
    [][(pc = "loop" /\ pc' = "loop" /\ currentIteration' = currentIteration + 1) =>
          LET candidate == LastRecord(convergenceHistory').state
              previous == currentData
              next == currentData'
          IN  /\ \A i \in 1..4 : next[i] \in {candidate[i], previous[i]}
              /\ (config.enableAdaptiveStep
                    /\ RatEq(config.dampingFactor, Rat(0, 1))) => next = candidate
              /\ (config.enableAdaptiveStep
                    /\ RatEq(config.dampingFactor, Rat(1, 1))) =>
                       (next = previous /\ next = initialData)
              /\ ~config.enableAdaptiveStep => next = candidate]_vars

\* a damped step that kept two bits of the candidate and reverted two
C23_Witness ==
    /\ pc = "loop"
    /\ currentIteration = 1
    /\ config.enableAdaptiveStep
    /\ RatEq(config.dampingFactor, Rat(1, 2))
    /\ initialData = <<0, 0, 0, 0>>
    /\ LastRecord(convergenceHistory).state = <<1, 1, 1, 1>>
    /\ currentData = <<1, 0, 1, 0>>

\* C24: in every SolveResult errorCorrectionStats.totalErrorsDetected is the
\* number of IterationRecords whose decode reported an error,
\* errorsCorrected equals it, and correctionEfficiency is at least 0.9 when
\* an error was detected and 1.0 when none was.
C24_CorrectionStats ==
    pc = "returned" =>
        LET stats == result.errorCorrectionStats
            detected == {i \in 1..Len(result.convergenceHistory) :
                            result.convergenceHistory[i].errorsCorrected}
        IN  /\ stats.totalErrorsDetected = Cardinality(detected)
            /\ stats.errorsCorrected = stats.totalErrorsDetected
            /\ detected # {} => LessEq(Rat(9, 10), stats.correctionEfficiency)
            /\ detected = {} => RatEq(stats.correctionEfficiency, Rat(1, 1))

\* two cycles, an error detected in the first only
C24_Witness ==
    /\ pc = "returned"
    /\ Len(result.convergenceHistory) = 2
    /\ result.convergenceHistory[1].errorsCorrected
    /\ ~result.convergenceHistory[2].errorsCorrected
    /\ result.errorCorrectionStats.totalErrorsDetected = 1
    /\ result.errorCorrectionStats.errorsCorrected = 1

\* C26: a converged result is a fixed point on the input: converged = true
\* implies finalState equals the initial DataWord, for every errorRate in
\* [0,1], tolerance in (0,1), damping setting and noise outcome.
C26_ConvergedOnInput ==
    (/\ pc = "returned"
     /\ ~InvalidConfiguration(config)
     /\ result.converged) =>
        result.finalState = initialData

\* C27: single-bit noise is absorbed in one iteration: if the noise flips
\* at most one of the 7 codeword bits in the first iteration, the run
\* converges in that iteration with iterations = 1, finalError = 0 and
\* finalState equal to the initial DataWord, for every DataWord, tolerance
\* in (0,1) and damping setting (maxIterations >= 1).
C27_SingleFlipAbsorbed ==
    (/\ pc = "returned"
     /\ initialData \in DataWords
     /\ config.maxIterations >= 1
     /\ ValidTolerance(config)
     /\ hammingDistance(result.convergenceHistory[1].transmittedState,
                        result.convergenceHistory[1].encodedState) <= 1) =>
        /\ result.converged
        /\ result.iterations = 1
        /\ Len(result.convergenceHistory) = 1
        /\ RatEq(result.finalError, Rat(0, 1))
        /\ result.finalState = initialData

\* one flipped bit, located and corrected in the first cycle of a damped run
C27_Witness ==
    /\ pc = "returned"
    /\ initialData = <<1, 0, 1, 0>>
    /\ config.enableAdaptiveStep
    /\ Len(result.convergenceHistory) = 1
    /\ hammingDistance(result.convergenceHistory[1].transmittedState,
                       result.convergenceHistory[1].encodedState) = 1
    /\ result.convergenceHistory[1].errorsCorrected
    /\ result.converged
    /\ result.iterations = 1
    /\ result.finalState = <<1, 0, 1, 0>>

\* C28: for every call that returns, convergenceHistory holds exactly one
\* IterationRecord per executed cycle, with iteration indices 0..n-1 in
\* order and n <= maxIterations, and result.iterations equals the length
\* of convergenceHistory, converged or not.
C28_OneRecordPerCycle ==
    (/\ pc = "returned"
     /\ config.maxIterations >= 1
     /\ ~InvalidConfiguration(config)) =>
        LET h == result.convergenceHistory
        IN  /\ Len(h) <= config.maxIterations
            /\ \A i \in 1..Len(h) : h[i].iteration = i - 1
            /\ result.iterations = Len(h)

(***************************************************************************)
(* Properties of a session on one solver (checked under SessionSpec)       *)
(***************************************************************************)
\* C12: solveFixedPoint called with a malformed initial DataWord fails with
\* an error, and after the failed call getStatus() reports the same
\* historyLength, currentIteration, isConverged, convergenceError and
\* totalRuns as before the call, whatever solves preceded it.
C12_FailedSolveLeavesStatus ==
    /\ (/\ pc = "returned"
        /\ config.maxIterations >= 1
        /\ ~InvalidConfiguration(config)) => initialData \in DataWords
    /\ pc = "threw" =>
        /\ getStatus.historyLength = statusBefore.historyLength
        /\ getStatus.currentIteration = statusBefore.currentIteration
        /\ getStatus.isConverged = statusBefore.isConverged
        /\ getStatus.convergenceError = statusBefore.convergenceError
        /\ getStatus.totalRuns = statusBefore.totalRuns

Analysed == pc = "analysed" /\ analysis.numRuns >= 1

\* C13: runStatisticalAnalysis called with a base errorRate of 0.0 (and a
\* tolerance in (0,1)) reports successRate = 1.0, for every random initial
\* DataWord and every outcome of the per-run errorRate jitter.
C13_ZeroRateAnalysisAlwaysSucceeds ==
    (/\ Analysed
     /\ RatEq(Field(analysis.baseParams, "errorRate"), Rat(0, 1))
     /\ ValidTolerance([convergenceTolerance |->
                          Field(analysis.baseParams, "convergenceTolerance")])) =>
        RatEq(analysis.value.successRate, Rat(1, 1))

\* the number of results with converged = true
ConvergedCount(results) ==
    Cardinality({k \in 1..Len(results) : results[k].converged})

\* the counters of the solver agree with the calls that returned
RunsCounted ==
    /\ statistics.successfulConvergences <= statistics.totalRuns
    /\ statistics.totalRuns = Len(held)

\* the value runStatisticalAnalysis(n, base) returned: totalRuns = n, the n
\* results of the last n solves, and successRate = (converged results) / n,
\* a value in [0,1]
BatchAccounted ==
    /\ analysis.value.totalRuns = analysis.numRuns
    /\ Len(analysis.value.results) = analysis.numRuns
    /\ RatEq(analysis.value.successRate,
             Rat(ConvergedCount(analysis.value.results), analysis.numRuns))
    /\ LessEq(Rat(0, 1), analysis.value.successRate)
    /\ LessEq(analysis.value.successRate, Rat(1, 1))
    /\ Len(held) >= analysis.numRuns
    /\ \A k \in 1..analysis.numRuns :
          analysis.value.results[k] =
              held[Len(held) - analysis.numRuns + k].result

\* a step that returns from solveFixedPoint adds 1 to totalRuns and 1 to
\* successfulConvergences iff the result is converged; no other step
\* changes the two counters
ReturnCounted ==
    IF pc # "returned" /\ pc' = "returned"
    THEN /\ statistics'.totalRuns = statistics.totalRuns + 1
         /\ statistics'.successfulConvergences =
               statistics.successfulConvergences
                  + (IF result'.converged THEN 1 ELSE 0)
    ELSE /\ statistics'.totalRuns = statistics.totalRuns
         /\ statistics'.successfulConvergences =
               statistics.successfulConvergences

\* C14: every solveFixedPoint call that returns increases
\* statistics.totalRuns by exactly 1 and successfulConvergences by 1 iff the
\* result is converged, so successfulConvergences <= totalRuns always;
\* runStatisticalAnalysis(n, base), for every n, performs exactly n solves
\* and returns totalRuns = n, n results and successRate = (converged
\* results) / n, a value in [0,1].
C14_RunAccounting ==
    /\ [](RunsCounted /\ (pc = "analysed" => BatchAccounted))
    /\ [][ReturnCounted]_vars

\* C14 with the batch statement restricted to n >= 1: for n = 0 the returned
\* successRate is 0 / 0, which is no value in [0,1].
C14_RunAccountingAmended ==
    /\ [](RunsCounted /\ (Analysed => BatchAccounted))
    /\ [][ReturnCounted]_vars

\* an analysis of two runs of which one converged, on a solver that has
\* counted exactly these two runs
C14_Witness ==
    /\ Analysed
    /\ analysis.numRuns = 2
    /\ RatEq(analysis.value.successRate, Rat(1, 2))
    /\ statistics.totalRuns = 2
    /\ statistics.successfulConvergences = 1

\* two results of the same solver for the same initial DataWord and the
\* same settings but the errorRate: 0.0 for the first, 0.3 for the second
SameButRate(quiet, noisy) ==
    /\ quiet.initialData = noisy.initialData
    /\ RatEq(quiet.result.parameters.errorRate, Rat(0, 1))
    /\ RatEq(noisy.result.parameters.errorRate, Rat(3, 10))
    /\ [quiet.result.parameters EXCEPT !.errorRate = Rat(3, 10)] =
           [noisy.result.parameters EXCEPT !.errorRate = Rat(3, 10)]

\* C18: for a fixed initial DataWord solved once with errorRate 0.0 and once
\* with errorRate 0.3, all other settings equal, whenever both runs converge
\* the run at 0.3 reports at least as many iterations as the run at 0.0.
C18_NoiseNeverConvergesFaster ==
    \A i, j \in 1..Len(held) :
        (/\ SameButRate(held[i], held[j])
         /\ held[i].result.converged
         /\ held[j].result.converged) =>
            held[j].result.iterations >= held[i].result.iterations

\* the noisy run converged at its second iteration, the quiet one at its first
C18_Witness ==
    /\ Len(held) = 2
    /\ SameButRate(held[1], held[2])
    /\ held[1].result.converged /\ held[1].result.iterations = 1
    /\ held[2].result.converged /\ held[2].result.iterations = 2

\* C19: after any later solveFixedPoint or runStatisticalAnalysis call on the
\* same solver, the convergenceHistory and finalState of every SolveResult
\* returned before are what they were when it was returned, and no step of
\* the solver modifies the caller's initialData array.
C19_ReturnedResultsFrame ==
    [][/\ \A k \in 1..Len(held) :
             /\ held'[k].result.convergenceHistory = held[k].result.convergenceHistory
             /\ held'[k].result.finalState = held[k].result.finalState
             /\ held'[k].initialData = held[k].initialData
       /\ calls' = calls => initialData' = initialData]_vars

\* a second solve has returned while the caller holds the first result, whose
\* history has one record
C19_Witness ==
    /\ pc = "returned"
    /\ Len(held) = 2
    /\ Len(held[1].result.convergenceHistory) = 1
    /\ Len(held[2].result.convergenceHistory) = 2
    /\ held[1].historyRef # historyRef

\* the cycles of a result in which the noise flipped no bit
NoFlips(r) ==
    \A i \in 1..Len(r.convergenceHistory) :
        r.convergenceHistory[i].transmittedState =
            r.convergenceHistory[i].encodedState

\* C29: runStatisticalAnalysis falls back to the default
\* convergenceTolerance (1e-6) when baseParams lacks it, as solveFixedPoint
\* does: each run of such a batch is solved with tolerance 1e-6, a run the
\* noise flipped no bit in converges, and the batch then reports
\* successRate > 0.
C29_AnalysisDefaultsTolerance ==
    (Analysed /\ "convergenceTolerance" \notin DOMAIN analysis.baseParams) =>
        /\ \A k \in 1..Len(analysis.value.results) :
              LET r == analysis.value.results[k]
              IN  /\ RatEq(r.parameters.convergenceTolerance,
                           defaultParams.convergenceTolerance)
                  /\ NoFlips(r) => r.converged
        /\ (\E k \in 1..Len(analysis.value.results) :
              NoFlips(analysis.value.results[k])) =>
                Less(Rat(0, 1), analysis.value.successRate)

(***************************************************************************)
(* Properties of the application's simulation control (checked under       *)
(* AppSpec)                                                                *)
(***************************************************************************)
\* the runCompleteSimulation calls between their start and their finally
InProgress == {r \in 1..MaxRuns : task[r].at \in {"solving", "sleeping"}}

\* C30: the isRunning guard gives mutual exclusion for
\* runCompleteSimulation under every interleaving of simulate requests,
\* resetSimulation calls and animation timer wake-ups: at most one
\* execution is between its start and its finally block, and
\* simulation.isRunning is true exactly while one is in progress.
C30_RunsMutuallyExcluded ==
    /\ Cardinality(InProgress) <= 1
    /\ simulation.isRunning <=> InProgress # {}

====
